---------------------------- MODULE Spec2Model ----------------------------
(***************************************************************************)
(* Model of orderfilter/filter.go (0x-mesh): the order filter that builds  *)
(* the order and message validators for a chain and a custom order schema, *)
(* and encodes/decodes the pubsub topic of that configuration.             *)
(*                                                                         *)
(* Go strings and byte slices are sequences of one-character strings, so   *)
(* that fmt.Sscanf, fmt.Sprintf, base64 and the JSON codecs are computed   *)
(* character by character.                                                 *)
(***************************************************************************)
EXTENDS Integers, Sequences, FiniteSets, TLC

VARIABLES
    f, g,        \* two Filter values held by the caller (Nil: not built yet)
    call,        \* the last call of New / NewFromTopic and what it returned
    topicPtr,    \* Filter.topic of the shared Filter: the string header's data word
    topicLen,    \* Filter.topic of the shared Filter: the string header's length word
    thr,         \* the goroutines calling Topic() on the shared Filter
    vf,          \* the Filter the validation calls are made on
    vcall        \* the last ValidateOrderJSON / MatchMessageJSON call and its result

vars == <<f, g, call, topicPtr, topicLen, thr, vf, vcall>>

Nil == [kind |-> "nil"]

(***************************************************************************)
(* Characters.  AsciiTable[i] is the character with code 31 + i (code 96,   *)
(* the backquote, is written "<bq>").                                      *)
(***************************************************************************)
AsciiTable ==
    <<" ", "!", "\"", "#", "$", "%", "&", "'", "(", ")", "*", "+", ",", "-", ".", "/",
      "0", "1", "2", "3", "4", "5", "6", "7", "8", "9", ":", ";", "<", "=", ">", "?",
      "@", "A", "B", "C", "D", "E", "F", "G", "H", "I", "J", "K", "L", "M", "N", "O",
      "P", "Q", "R", "S", "T", "U", "V", "W", "X", "Y", "Z", "[", "\\", "]", "^", "_",
      "<bq>", "a", "b", "c", "d", "e", "f", "g", "h", "i", "j", "k", "l", "m", "n", "o",
      "p", "q", "r", "s", "t", "u", "v", "w", "x", "y", "z", "{", "|", "}", "~">>

Printable == {AsciiTable[i] : i \in 1..Len(AsciiTable)}

AsciiCode == [c \in Printable |-> 31 + CHOOSE i \in 1..Len(AsciiTable) : AsciiTable[i] = c]

\* A byte that is no printable ASCII character (base64 can decode to one).
NonPrintable == "<np>"

Ord(c) == IF c \in Printable THEN AsciiCode[c] ELSE 0

Chr(b) == IF b >= 32 /\ b <= 126 THEN AsciiTable[b - 31] ELSE NonPrintable

Digits == <<"0", "1", "2", "3", "4", "5", "6", "7", "8", "9">>

IsDigit(c) == \E i \in 1..10 : Digits[i] = c

DigitVal(c) == (CHOOSE i \in 1..10 : Digits[i] = c) - 1

\* unicode.IsSpace restricted to the characters of the model
IsSpace(c) == c = " "

\* s[i..] (empty when i is past the end)
From(s, i) == SubSeq(s, i, Len(s))

HasPrefixAt(s, i, p) ==
    /\ i + Len(p) - 1 <= Len(s)
    /\ \A k \in 1..Len(p) : s[i + k - 1] = p[k]

\* strings.Contains / an unanchored match of a pattern without metacharacters
Contains(s, p) == \E i \in 1..(Len(s) - Len(p) + 1) : HasPrefixAt(s, i, p)

RECURSIVE Concat(_)
Concat(ss) == IF ss = <<>> THEN <<>> ELSE Head(ss) \o Concat(Tail(ss))

RECURSIVE Repeat(_, _)
Repeat(c, n) == IF n = 0 THEN <<>> ELSE <<c>> \o Repeat(c, n - 1)

\* strings.ToLower on ASCII
LowerChar(c) ==
    IF c \in Printable /\ AsciiCode[c] >= 65 /\ AsciiCode[c] <= 90
    THEN Chr(AsciiCode[c] + 32) ELSE c

ToLower(s) == [i \in 1..Len(s) |-> LowerChar(s[i])]

\* s < t in byte order
RECURSIVE StrLess(_, _)
StrLess(s, t) ==
    IF t = <<>> THEN FALSE
    ELSE IF s = <<>> THEN TRUE
    ELSE IF Ord(Head(s)) # Ord(Head(t)) THEN Ord(Head(s)) < Ord(Head(t))
    ELSE StrLess(Tail(s), Tail(t))

\* fmt's %d of an int
RECURSIVE NatToStr(_)
NatToStr(n) == IF n < 10 THEN <<Digits[n + 1]>> ELSE NatToStr(n \div 10) \o <<Digits[(n % 10) + 1]>>

Itoa(n) == IF n < 0 THEN <<"-">> \o NatToStr(-n) ELSE NatToStr(n)

RECURSIVE DigitsToNat(_, _)
DigitsToNat(ds, acc) ==
    IF ds = <<>> THEN acc ELSE DigitsToNat(Tail(ds), 10 * acc + DigitVal(Head(ds)))


(***************************************************************************)
(* encoding/base64, URLEncoding (padded), over byte sequences.             *)
(***************************************************************************)
encodeURL ==
    <<"A", "B", "C", "D", "E", "F", "G", "H", "I", "J", "K", "L", "M", "N", "O", "P",
      "Q", "R", "S", "T", "U", "V", "W", "X", "Y", "Z", "a", "b", "c", "d", "e", "f",
      "g", "h", "i", "j", "k", "l", "m", "n", "o", "p", "q", "r", "s", "t", "u", "v",
      "w", "x", "y", "z", "0", "1", "2", "3", "4", "5", "6", "7", "8", "9", "-", "_">>

IsB64(c) == \E i \in 1..64 : encodeURL[i] = c

B64Val(c) == (CHOOSE i \in 1..64 : encodeURL[i] = c) - 1

B64Char(v) == encodeURL[v + 1]

\* base64.URLEncoding.EncodeToString
RECURSIVE EncodeToString(_)
EncodeToString(src) ==
    IF Len(src) = 0 THEN <<>>
    ELSE IF Len(src) = 1 THEN
        LET v == Ord(src[1]) * 65536
        IN  <<B64Char(v \div 262144), B64Char((v \div 4096) % 64), "=", "=">>
    ELSE IF Len(src) = 2 THEN
        LET v == Ord(src[1]) * 65536 + Ord(src[2]) * 256
        IN  <<B64Char(v \div 262144), B64Char((v \div 4096) % 64),
              B64Char((v \div 64) % 64), "=">>
    ELSE
        LET v == Ord(src[1]) * 65536 + Ord(src[2]) * 256 + Ord(src[3])
        IN  <<B64Char(v \div 262144), B64Char((v \div 4096) % 64),
              B64Char((v \div 64) % 64), B64Char(v % 64)>> \o EncodeToString(From(src, 4))

\* One quantum of four characters; last: it is the final quantum, where padding may stand.
DecodeQuantum(q, last) ==
    IF IsB64(q[1]) /\ IsB64(q[2]) /\ IsB64(q[3]) /\ IsB64(q[4]) THEN
        LET v == B64Val(q[1]) * 262144 + B64Val(q[2]) * 4096 + B64Val(q[3]) * 64 + B64Val(q[4])
        IN  [ok |-> TRUE, out |-> <<Chr(v \div 65536), Chr((v \div 256) % 256), Chr(v % 256)>>]
    ELSE IF last /\ IsB64(q[1]) /\ IsB64(q[2]) /\ IsB64(q[3]) /\ q[4] = "=" THEN
        LET v == B64Val(q[1]) * 262144 + B64Val(q[2]) * 4096 + B64Val(q[3]) * 64
        IN  [ok |-> TRUE, out |-> <<Chr(v \div 65536), Chr((v \div 256) % 256)>>]
    ELSE IF last /\ IsB64(q[1]) /\ IsB64(q[2]) /\ q[3] = "=" /\ q[4] = "=" THEN
        LET v == B64Val(q[1]) * 262144 + B64Val(q[2]) * 4096
        IN  [ok |-> TRUE, out |-> <<Chr(v \div 65536)>>]
    ELSE [ok |-> FALSE, out |-> <<>>]

\* base64.URLEncoding.DecodeString: ok = FALSE is a CorruptInputError
RECURSIVE DecodeString(_)
DecodeString(s) ==
    IF Len(s) = 0 THEN [ok |-> TRUE, out |-> <<>>]
    ELSE IF Len(s) < 4 THEN [ok |-> FALSE, out |-> <<>>]
    ELSE
        LET q    == DecodeQuantum(SubSeq(s, 1, 4), Len(s) = 4)
            rest == DecodeString(From(s, 5))
        IN  IF q.ok /\ rest.ok THEN [ok |-> TRUE, out |-> q.out \o rest.out]
            ELSE [ok |-> FALSE, out |-> <<>>]

(***************************************************************************)
(* JSON texts and values.  The dialect of the model: objects, arrays and   *)
(* strings without escapes; the only whitespace is the space.  A value is  *)
(* [t |-> "obj", m |-> function from keys to values],                      *)
(* [t |-> "arr", a |-> sequence of values] or [t |-> "str", s |-> chars].  *)
(***************************************************************************)
JNone == [t |-> "none"]

JObj(m) == [t |-> "obj", m |-> m]

JArr(a) == [t |-> "arr", a |-> a]

JStr(s) == [t |-> "str", s |-> s]

EmptyMap == [k \in {} |-> JNone]

\* a JSON object with key k set to v (a repeated key keeps the last value)
Put(m, k, v) == [x \in (DOMAIN m) \cup {k} |-> IF x = k THEN v ELSE m[x]]

ParseFail == [ok |-> FALSE, val |-> JNone, next |-> 0]

ParseOk(v, n) == [ok |-> TRUE, val |-> v, next |-> n]

RECURSIVE SkipWS(_, _)
SkipWS(s, i) == IF i <= Len(s) /\ IsSpace(s[i]) THEN SkipWS(s, i + 1) ELSE i

\* the index of the quote closing the string that opens at s[i], or 0
RECURSIVE ClosingQuote(_, _)
ClosingQuote(s, j) ==
    IF j > Len(s) \/ s[j] = "\\" \/ s[j] = NonPrintable THEN 0
    ELSE IF s[j] = "\"" THEN j
    ELSE ClosingQuote(s, j + 1)

ScanStringTo(s, i, q) ==
    IF q = 0 THEN ParseFail ELSE ParseOk(JStr(SubSeq(s, i + 1, q - 1)), q + 1)

\* the string that opens at s[i]
ScanString(s, i) == ScanStringTo(s, i, ClosingQuote(s, i + 1))

RECURSIVE ParseValue(_, _), ParseMembers(_, _, _), ParseElems(_, _, _)

\* the members of an object from s[k] on (s[k] is past the spaces), after those in acc
MembersEnd(s, e, m) ==
    IF e > Len(s) THEN ParseFail
    ELSE IF s[e] = "}" THEN ParseOk(JObj(m), e + 1)
    ELSE IF s[e] = "," THEN ParseMembers(s, SkipWS(s, e + 1), m)
    ELSE ParseFail

MembersAfterValue(s, key, v, acc) ==
    IF ~v.ok THEN ParseFail
    ELSE MembersEnd(s, SkipWS(s, v.next), Put(acc, key.val.s, v.val))

MembersAfterKey(s, key, c, acc) ==
    IF ~key.ok \/ c > Len(s) THEN ParseFail
    ELSE IF s[c] # ":" THEN ParseFail
    ELSE MembersAfterValue(s, key, ParseValue(s, c + 1), acc)

MembersKey(s, key, acc) ==
    MembersAfterKey(s, key, IF key.ok THEN SkipWS(s, key.next) ELSE 0, acc)

ParseMembers(s, k, acc) ==
    IF k > Len(s) THEN ParseFail
    ELSE IF s[k] # "\"" THEN ParseFail
    ELSE MembersKey(s, ScanString(s, k), acc)

\* the elements of an array from s[k] on, after those in acc
ElemsEnd(s, e, a) ==
    IF e > Len(s) THEN ParseFail
    ELSE IF s[e] = "]" THEN ParseOk(JArr(a), e + 1)
    ELSE IF s[e] = "," THEN ParseElems(s, e + 1, a)
    ELSE ParseFail

ElemsAfterValue(s, v, acc) ==
    IF ~v.ok THEN ParseFail ELSE ElemsEnd(s, SkipWS(s, v.next), Append(acc, v.val))

ParseElems(s, k, acc) == ElemsAfterValue(s, ParseValue(s, k), acc)

ParseObjectAt(s, k) ==
    IF k <= Len(s) /\ s[k] = "}" THEN ParseOk(JObj(EmptyMap), k + 1)
    ELSE ParseMembers(s, k, EmptyMap)

ParseArrayAt(s, k) ==
    IF k <= Len(s) /\ s[k] = "]" THEN ParseOk(JArr(<<>>), k + 1)
    ELSE ParseElems(s, k, <<>>)

ParseValueAt(s, j) ==
    IF j > Len(s) THEN ParseFail
    ELSE IF s[j] = "\"" THEN ScanString(s, j)
    ELSE IF s[j] = "{" THEN ParseObjectAt(s, SkipWS(s, j + 1))
    ELSE IF s[j] = "[" THEN ParseArrayAt(s, SkipWS(s, j + 1))
    ELSE ParseFail

\* the JSON value that starts at or after s[i], and the index after it
ParseValue(s, i) == ParseValueAt(s, SkipWS(s, i))

RECURSIVE SortKeys(_)
SortKeys(K) ==
    IF K = {} THEN <<>>
    ELSE LET m == CHOOSE k \in K : \A o \in K \ {k} : StrLess(k, o)
         IN  <<m>> \o SortKeys(K \ {m})

RECURSIVE Marshal(_), MarshalMembers(_, _), MarshalElems(_)

\* canonicaljson.Marshal: no whitespace, object keys in sorted order
Marshal(v) ==
    IF v.t = "str" THEN <<"\"">> \o v.s \o <<"\"">>
    ELSE IF v.t = "arr" THEN <<"[">> \o MarshalElems(v.a) \o <<"]">>
    ELSE <<"{">> \o MarshalMembers(v.m, SortKeys(DOMAIN v.m)) \o <<"}">>

MarshalMembers(m, ks) ==
    IF ks = <<>> THEN <<>>
    ELSE <<"\"">> \o Head(ks) \o <<"\"", ":">> \o Marshal(m[Head(ks)])
         \o (IF Len(ks) > 1 THEN <<",">> ELSE <<>>) \o MarshalMembers(m, Tail(ks))

MarshalElems(a) ==
    IF a = <<>> THEN <<>>
    ELSE Marshal(Head(a)) \o (IF Len(a) > 1 THEN <<",">> ELSE <<>>) \o MarshalElems(Tail(a))

\* canonicaljson.Unmarshal: the whole text must be one JSON value
WholeText(data, r) ==
    IF r.ok /\ SkipWS(data, r.next) > Len(data)
    THEN [err |-> FALSE, val |-> r.val]
    ELSE [err |-> TRUE, val |-> JNone]

Unmarshal(data) == WholeText(data, ParseValue(data, 1))

\* gojsonschema's string loader (json.Decoder.Decode): the first JSON value of the
\* text is the document, and what follows it is not read
FirstValue(r) == IF r.ok THEN [err |-> FALSE, doc |-> r.val] ELSE [err |-> TRUE, doc |-> JNone]

LoadJSON(source) == FirstValue(ParseValue(source, 1))


(***************************************************************************)
(* Constants of filter.go.                                                 *)
(***************************************************************************)
pubsubTopicVersion == 3

\* the literal text of topicVersionFormat before its %d
topicVersionPrefix == <<"/", "0", "x", "-", "o", "r", "d", "e", "r", "s", "/", "v", "e", "r", "s", "i", "o", "n", "/">>

\* the literal texts of topicChainIDAndSchemaFormat before each of its verbs
topicChainPrefix == <<"/", "c", "h", "a", "i", "n", "/">>

topicSchemaPrefix == <<"/", "s", "c", "h", "e", "m", "a", "/">>

\* DefaultCustomOrderSchema
DefaultCustomOrderSchema == <<"{", "}">>

(***************************************************************************)
(* ethereum.GetContractAddressesForChainID and Address.Hex(): the exchange *)
(* contract of a chain, as its checksummed (EIP-55) hex text.  Chain 1 is  *)
(* the main network and chain 1337 the local test network; the other       *)
(* chains are unknown.                                                     *)
(***************************************************************************)
ChainIDs == {0, 1, 1337}

ExchangeHex ==
    (1 :> <<"0", "x", "6", "1", "9", "3", "5", "C", "b", "D", "d", "0", "2", "2", "8", "7", "B", "5", "1", "1", "1", "1", "9", "D", "D", "b", "1", "1", "A", "e", "b", "4", "2", "F", "1", "5", "9", "3", "b", "7", "E", "f">>)
    @@
    (1337 :> <<"0", "x", "4", "8", "B", "a", "C", "B", "9", "2", "6", "6", "a", "5", "7", "0", "d", "5", "2", "1", "0", "6", "3", "E", "F", "5", "d", "D", "9", "6", "e", "6", "1", "6", "8", "6", "D", "b", "E", "7", "8", "8">>)

GetContractAddressesForChainID(chainID) ==
    IF chainID \in DOMAIN ExchangeHex
    THEN [err |-> FALSE, Exchange |-> ExchangeHex[chainID]]
    ELSE [err |-> TRUE, Exchange |-> <<>>]

(***************************************************************************)
(* The schema loader (jsonschema.SchemaLoader) is the set of the fragments *)
(* registered in it.  The built-in schemas are constants; what varies is   *)
(* the /exchangeAddress fragment and the /customOrder document.            *)
(***************************************************************************)
NilLoader == [kind |-> "nil"]

\* loadExchangeAddress: the fragment is oneOf two patterns, the address's Hex() and
\* its lower-case text
loadExchangeAddress(chainID) ==
    LET contractAddresses == GetContractAddressesForChainID(chainID)
    IN  IF contractAddresses.err
        THEN [err |-> TRUE, oneOf |-> <<>>]
        ELSE [err |-> FALSE,
              oneOf |-> <<contractAddresses.Exchange, ToLower(contractAddresses.Exchange)>>]

\* newLoader: (nil, err) when the exchange address does not resolve or the custom
\* schema text does not load
AddSchemas(ex, custom) ==
    IF ex.err THEN [err |-> "NetworkLookupError", loader |-> NilLoader]
    ELSE IF custom.err THEN [err |-> "SchemaLoadError", loader |-> NilLoader]
    ELSE [err |-> "",
          loader |-> [kind |-> "loader", exchangeAddress |-> ex.oneOf,
                      customOrder |-> custom.doc]]

newLoader(chainID, customOrderSchema) ==
    AddSchemas(loadExchangeAddress(chainID), LoadJSON(customOrderSchema))

TypeNames ==
    { <<"a", "r", "r", "a", "y">>, <<"b", "o", "o", "l", "e", "a", "n">>,
      <<"i", "n", "t", "e", "g", "e", "r">>, <<"n", "u", "m", "b", "e", "r">>,
      <<"n", "u", "l", "l">>, <<"o", "b", "j", "e", "c", "t">>,
      <<"s", "t", "r", "i", "n", "g">> }

KeyRequired == <<"r", "e", "q", "u", "i", "r", "e", "d">>

KeyType == <<"t", "y", "p", "e">>

\* whether the engine accepts a document as a schema: an object whose "required"
\* is an array of strings and whose "type" names a JSON type
IsSchema(doc) ==
    /\ doc.t = "obj"
    /\ KeyRequired \in DOMAIN doc.m =>
           /\ doc.m[KeyRequired].t = "arr"
           /\ \A i \in 1..Len(doc.m[KeyRequired].a) : doc.m[KeyRequired].a[i].t = "str"
    /\ KeyType \in DOMAIN doc.m =>
           /\ doc.m[KeyType].t = "str"
           /\ doc.m[KeyType].s \in TypeNames

\* SchemaLoader.Compile of a root schema that refers to /customOrder: the
\* compiled schema keeps the fragments it was compiled from
Compile(loader, root) ==
    IF IsSchema(loader.customOrder)
    THEN [err |-> "", schema |-> [root |-> root, exchangeAddress |-> loader.exchangeAddress,
                                  customOrder |-> loader.customOrder]]
    ELSE [err |-> "SchemaCompileError", schema |-> Nil]

(***************************************************************************)
(* Filter and New.  A result is what the call returned: kind "ok" with the *)
(* Filter, kind "err" with the error, or kind "panic" when the call        *)
(* dereferenced a nil loader.  steps lists the calls New made, in order.   *)
(***************************************************************************)
Filter(chainID, customOrderSchema, rootOrderSchema, rootMessageSchema) ==
    [kind |-> "filter", topic |-> <<>>, version |-> 0, chainID |-> chainID,
     rawCustomOrderSchema |-> customOrderSchema,
     orderSchema |-> rootOrderSchema, messageSchema |-> rootMessageSchema]

Result(kind, err, filter, steps) ==
    [kind |-> kind, err |-> err, filter |-> filter, steps |-> steps,
     expectedVersion |-> 0, actualVersion |-> 0]

New(chainID, customOrderSchema) ==
    LET l1 == newLoader(chainID, customOrderSchema)           \* err is not looked at
        s1 == <<"newLoader", "Compile(rootOrder)">>
    IN  IF l1.loader = NilLoader THEN Result("panic", "nil pointer dereference", Nil, s1)
        ELSE
            LET c1 == Compile(l1.loader, "/rootOrder")
            IN  IF c1.err # "" THEN Result("err", c1.err, Nil, s1)
                ELSE
                    LET l2 == newLoader(chainID, customOrderSchema)   \* err is not looked at
                        s2 == s1 \o <<"newLoader", "AddSchemas(rootOrder)">>
                    IN  IF l2.loader = NilLoader
                        THEN Result("panic", "nil pointer dereference", Nil, s2)
                        ELSE
                            LET c2 == Compile(l2.loader, "/rootMessage")
                                s3 == s2 \o <<"Compile(rootMessage)">>
                            IN  IF c2.err # "" THEN Result("err", c2.err, Nil, s3)
                                ELSE Result("ok", "",
                                            Filter(chainID, customOrderSchema, c1.schema, c2.schema),
                                            s3)

(***************************************************************************)
(* Topic and generateTopic.                                                *)
(***************************************************************************)
\* fmt.Sprintf(fullTopicFormat, version, chainID, schema)
fullTopicFormat(version, chainID, schema) ==
    topicVersionPrefix \o Itoa(version) \o topicChainPrefix \o Itoa(chainID)
        \o topicSchemaPrefix \o schema

\* canonicalOrderSchemaJSON with the raw text encoded as it is
canonicalOrderSchemaJSON_Raw(rawCustomOrderSchema) == rawCustomOrderSchema

\* canonicalOrderSchemaJSON with Unmarshal's result never stored in holder
canonicalOrderSchemaJSON_Holder(rawCustomOrderSchema) == Marshal(JObj(EmptyMap))

\* what generateTopic base64-encodes: holder starts as struct{}{}, which marshals as
\* {}, and keeps that value when Unmarshal fails (both errors are discarded)
canonicalOrderSchemaJSON(rawCustomOrderSchema) ==
    LET u      == Unmarshal(rawCustomOrderSchema)
        holder == IF u.err THEN JObj(EmptyMap) ELSE u.val
    IN  Marshal(holder)

generateTopic(v) ==
    fullTopicFormat(pubsubTopicVersion, v.chainID,
                    EncodeToString(canonicalOrderSchemaJSON(v.rawCustomOrderSchema)))



(***************************************************************************)
(* fmt.Sscanf for the two formats of filter.go.  Literal text of the       *)
(* format must stand in the input as it is; %d and %s first skip spaces;   *)
(* %d reads an optional sign and at least one digit; %s reads up to the    *)
(* next space and fails at the end of input; input left over is ignored.   *)
(* A scan is [ok, val, next].                                              *)
(***************************************************************************)
ScanFail == [ok |-> FALSE, val |-> 0, next |-> 0]

ScanLiteral(s, i, lit) ==
    IF HasPrefixAt(s, i, lit) THEN [ok |-> TRUE, val |-> 0, next |-> i + Len(lit)]
    ELSE ScanFail

RECURSIVE DigitsEnd(_, _)
DigitsEnd(s, i) == IF i <= Len(s) /\ IsDigit(s[i]) THEN DigitsEnd(s, i + 1) ELSE i

\* the verb %d
ScanInt(s, i) ==
    LET j    == SkipWS(s, i)
        neg  == j <= Len(s) /\ s[j] = "-"
        d    == IF j <= Len(s) /\ (s[j] = "-" \/ s[j] = "+") THEN j + 1 ELSE j
        e    == DigitsEnd(s, d)
    IN  IF e = d THEN ScanFail
        ELSE LET n == DigitsToNat(SubSeq(s, d, e - 1), 0)
             IN  [ok |-> TRUE, val |-> IF neg THEN -n ELSE n, next |-> e]

RECURSIVE TokenEnd(_, _)
TokenEnd(s, i) == IF i <= Len(s) /\ ~IsSpace(s[i]) THEN TokenEnd(s, i + 1) ELSE i

\* the verb %s
ScanToken(s, i) ==
    LET j == SkipWS(s, i)
    IN  IF j > Len(s) THEN [ok |-> FALSE, val |-> <<>>, next |-> 0]
        ELSE [ok |-> TRUE, val |-> SubSeq(s, j, TokenEnd(s, j) - 1), next |-> TokenEnd(s, j)]

\* fmt.Sscanf(topic, topicVersionFormat, &version, &chainIDAndSchema)
SscanfVersion(topic) ==
    LET p == ScanLiteral(topic, 1, topicVersionPrefix)
        v == IF p.ok THEN ScanInt(topic, p.next) ELSE ScanFail
        r == IF v.ok THEN ScanToken(topic, v.next) ELSE ScanFail
    IN  [err |-> ~r.ok, version |-> v.val, chainIDAndSchema |-> IF r.ok THEN r.val ELSE <<>>]

\* fmt.Sscanf(chainIDAndSchema, topicChainIDAndSchemaFormat, &chainID, &base64EncodedSchema)
SscanfChainIDAndSchema(chainIDAndSchema) ==
    LET p == ScanLiteral(chainIDAndSchema, 1, topicChainPrefix)
        c == IF p.ok THEN ScanInt(chainIDAndSchema, p.next) ELSE ScanFail
        q == IF c.ok THEN ScanLiteral(chainIDAndSchema, c.next, topicSchemaPrefix) ELSE ScanFail
        r == IF q.ok THEN ScanToken(chainIDAndSchema, q.next) ELSE ScanFail
    IN  [err |-> ~r.ok, chainID |-> c.val, base64EncodedSchema |-> IF r.ok THEN r.val ELSE <<>>]

(***************************************************************************)
(* NewFromTopic.  steps lists the parsing stages it went through before    *)
(* the steps of New.                                                       *)
(***************************************************************************)
WrongTopicVersionError(expectedVersion, actualVersion, steps) ==
    [kind |-> "err", err |-> "WrongTopicVersionError", filter |-> Nil, steps |-> steps,
     expectedVersion |-> expectedVersion, actualVersion |-> actualVersion]

NewFromTopic(topic) ==
    LET v  == SscanfVersion(topic)
        s1 == <<"Sscanf(topicVersionFormat)">>
    IN  IF v.err THEN Result("err", "could not parse topic version", Nil, s1)
        ELSE IF v.version # pubsubTopicVersion
        THEN WrongTopicVersionError(pubsubTopicVersion, v.version, s1)
        ELSE
            LET c  == SscanfChainIDAndSchema(v.chainIDAndSchema)
                s2 == s1 \o <<"Sscanf(topicChainIDAndSchemaFormat)">>
            IN  IF c.err THEN Result("err", "could not parse chainID and schema", Nil, s2)
                ELSE
                    LET d  == DecodeString(c.base64EncodedSchema)
                        s3 == s2 \o <<"DecodeString">>
                    IN  IF ~d.ok THEN Result("err", "could not base64-decode order schema", Nil, s3)
                        ELSE LET r == New(c.chainID, d.out)
                             IN  [r EXCEPT !.steps = s3 \o <<"New">> \o r.steps]


(***************************************************************************)
(* The inputs of the model.                                                *)
(***************************************************************************)
\* at most this many spaces are put before and after a schema text
MaxPad == 1

\* custom order schemas that load and compile
SchemaE == <<"{", "}">>

SchemaR == <<"{", "\"", "r", "e", "q", "u", "i", "r", "e", "d", "\"", ":", "[", "\"", "x", "\"", "]", "}">>

SchemaW == <<"{", "\"", "r", "e", "q", "u", "i", "r", "e", "d", "\"", ":", " ", "[", "\"", "x", "\"", "]", "}">>

SchemaRT == <<"{", "\"", "r", "e", "q", "u", "i", "r", "e", "d", "\"", ":", "[", "\"", "x", "\"", "]", ",", "\"", "t", "y", "p", "e", "\"", ":", "\"", "o", "b", "j", "e", "c", "t", "\"", "}">>

SchemaTR == <<"{", "\"", "t", "y", "p", "e", "\"", ":", "\"", "o", "b", "j", "e", "c", "t", "\"", ",", "\"", "r", "e", "q", "u", "i", "r", "e", "d", "\"", ":", "[", "\"", "x", "\"", "]", "}">>

\* a JSON string: it loads, and is no schema
SchemaS == <<"\"", "x", "\"">>

\* a text cut short: it does not load
SchemaCut == <<"{", "\"", "r", "e", "q", "u", "i", "r", "e", "d", "\"", ":", "[", "\"", "x", "\"", "]">>

SchemaCores == {SchemaE, SchemaR, SchemaW, SchemaRT, SchemaTR, SchemaS, SchemaCut}

\* a core between k spaces, followed or not by a character that is no JSON
Decorate(core, k, junk) == Repeat(" ", k) \o core \o Repeat(" ", k) \o junk

SchemaTexts ==
    {<<>>} \cup {Decorate(core, k, junk) : core \in SchemaCores, k \in 0..MaxPad,
                                           junk \in {<<>>, <<"x">>}}


(***************************************************************************)
(* New and generateTopic are pure: their values on the inputs of the model *)
(* are tabulated once.                                                     *)
(***************************************************************************)
NewMemo == [c \in ChainIDs |-> [s \in SchemaTexts |-> New(c, s)]]

generateTopicMemo ==
    [c \in ChainIDs |-> [s \in SchemaTexts |->
        generateTopic([chainID |-> c, rawCustomOrderSchema |-> s])]]

(***************************************************************************)
(* Spec: a caller that holds two Filters.  f is built by New; g is built   *)
(* by New or by NewFromTopic from the topic of f.  g records where its     *)
(* Filter came from (src) and how the call ended (kind).                   *)
(***************************************************************************)
\* Filter.Topic called by one goroutine: the Filter afterwards, and the string returned
TopicFilter(fl) ==
    IF fl.topic # <<>> THEN fl
    ELSE IF fl.chainID \in ChainIDs /\ fl.rawCustomOrderSchema \in SchemaTexts
    THEN [fl EXCEPT !.topic = generateTopicMemo[fl.chainID][fl.rawCustomOrderSchema]]
    ELSE [fl EXCEPT !.topic = generateTopic(fl)]

Topic(fl) == TopicFilter(fl).topic

NoG == [src |-> "none", kind |-> "nil", filter |-> Nil]

\* the last call of New / NewFromTopic/ Topic outside SpecCalls, the shared Filter
\* outside SpecTopic and the validated Filter outside SpecValidate stay as they start
IdleCalls == call = Nil

IdleTopic == topicPtr = "nil" /\ topicLen = 0 /\ thr = <<>>

IdleValidate == vf = Nil /\ vcall = Nil

Init == f = Nil /\ g = NoG /\ IdleCalls /\ IdleTopic /\ IdleValidate

NewF(chainID, customOrderSchema) ==
    /\ f' = NewMemo[chainID][customOrderSchema].filter
    /\ g' = IF g.src = "NewFromTopic(f.Topic())" THEN NoG ELSE g
    /\ UNCHANGED <<call, topicPtr, topicLen, thr, vf, vcall>>

NewG(chainID, customOrderSchema) ==
    /\ LET r == NewMemo[chainID][customOrderSchema]
       IN  g' = [src |-> "New", kind |-> r.kind, filter |-> r.filter]
    /\ UNCHANGED <<f, call, topicPtr, topicLen, thr, vf, vcall>>

TopicF ==
    /\ f # Nil
    /\ f' = TopicFilter(f)
    /\ UNCHANGED <<g, call, topicPtr, topicLen, thr, vf, vcall>>

TopicG ==
    /\ g.filter # Nil
    /\ g' = [g EXCEPT !.filter = TopicFilter(g.filter)]
    /\ UNCHANGED <<f, call, topicPtr, topicLen, thr, vf, vcall>>

\* g, err := NewFromTopic(f.Topic())
NewFromTopicOfF ==
    /\ f # Nil
    /\ LET r == NewFromTopic(Topic(f))
       IN  g' = [src |-> "NewFromTopic(f.Topic())", kind |-> r.kind, filter |-> r.filter]
    /\ f' = TopicFilter(f)
    /\ UNCHANGED <<call, topicPtr, topicLen, thr, vf, vcall>>

Next ==
    \/ \E c \in ChainIDs, s \in SchemaTexts : NewF(c, s)
    \/ \E c \in ChainIDs, s \in SchemaTexts : NewG(c, s)
    \/ TopicF
    \/ TopicG
    \/ NewFromTopicOfF

Spec == Init /\ [][Next]_vars


(***************************************************************************)
(* SpecCalls: one call of New or of NewFromTopic on an input drawn from    *)
(* the inputs below, then Topic() on the Filter it returned.               *)
(***************************************************************************)
\* what stands in the topic where the version is expected
VersionTexts ==
    { <<"3">>, <<"2">>, <<"4">>, <<"0", "3">>, <<"+", "3">>, <<"-", "3">>, <<"3", "0">>,
      <<" ", "3">>, <<"x">>, <<>> }

\* the rest of a topic as generateTopic writes it
ChainAndSchema(chainID, customOrderSchema) ==
    topicChainPrefix \o Itoa(chainID) \o topicSchemaPrefix \o EncodeToString(customOrderSchema)

\* what stands after the version: the rest for a chain and a schema text (canonical or
\* not), and rests that are missing, cut short, padded or not base64
RestTexts ==
    {ChainAndSchema(c, s) : c \in ChainIDs, s \in SchemaTexts}
    \cup { <<>>, <<" ">>, <<"z", "z">>,
           <<"/", "c", "h", "a", "i", "n", "/", "x", "/", "s", "c", "h", "e", "m", "a", "/", "e", "3", "0", "=">>,
           <<"/", "c", "h", "a", "i", "n", "/", "1">>,
           <<"/", "c", "h", "a", "i", "n", "/", "1", "/", "s", "c", "h", "e", "m", "a", "/">>,
           <<"/", "c", "h", "a", "i", "n", "/", "1", "/", "s", "c", "h", "e", "m", "a", "/", "e", "3", "0">>,
           <<"/", "c", "h", "a", "i", "n", "/", "1", "/", "s", "c", "h", "e", "m", "a", "/", "e", "3", "0", "=", " ", "z", "z">>,
           <<" ", "/", "c", "h", "a", "i", "n", "/", "1", "/", "s", "c", "h", "e", "m", "a", "/", "e", "3", "0", "=">>,
           <<"/", "c", "h", "a", "i", "n", "/", "+", "1", "/", "s", "c", "h", "e", "m", "a", "/", "e", "3", "0", "=">>,
           <<"/", "c", "h", "a", "i", "n", "/", "0", "1", "/", "s", "c", "h", "e", "m", "a", "/", "e", "3", "0", "=">> }

TopicTexts ==
    {topicVersionPrefix \o v \o r : v \in VersionTexts, r \in RestTexts}
    \cup { <<>>, <<"/", "0", "x", "-", "o", "r", "d", "e", "r", "s", "/", "v", "3", "/", "c", "h", "a", "i", "n", "/", "1", "/", "s", "c", "h", "e", "m", "a", "/", "e", "3", "0", "=">> }

PendingCalls ==
    {[op |-> "New", chainID |-> c, schema |-> s, topic |-> <<>>, state |-> "pending",
      res |-> Nil] : c \in ChainIDs, s \in SchemaTexts}
    \cup
    {[op |-> "NewFromTopic", chainID |-> 0, schema |-> <<>>, topic |-> t, state |-> "pending",
      res |-> Nil] : t \in TopicTexts}

InitCalls == f = Nil /\ g = NoG /\ call \in PendingCalls /\ IdleTopic /\ IdleValidate

CallNew ==
    /\ call.op = "New" /\ call.state = "pending"
    /\ call' = [call EXCEPT !.state = "returned", !.res = New(call.chainID, call.schema)]
    /\ UNCHANGED <<f, g, topicPtr, topicLen, thr, vf, vcall>>

CallNewFromTopic ==
    /\ call.op = "NewFromTopic" /\ call.state = "pending"
    /\ call' = [call EXCEPT !.state = "returned", !.res = NewFromTopic(call.topic)]
    /\ UNCHANGED <<f, g, topicPtr, topicLen, thr, vf, vcall>>

\* Topic() on the Filter the call returned
CallTopic ==
    /\ call.state = "returned" /\ call.res.kind = "ok"
    /\ call' = [call EXCEPT !.state = "topic", !.res.filter = TopicFilter(@)]
    /\ UNCHANGED <<f, g, topicPtr, topicLen, thr, vf, vcall>>

NextCalls == CallNew \/ CallNewFromTopic \/ CallTopic

SpecCalls == InitCalls /\ [][NextCalls]_vars


(***************************************************************************)
(* Claims about New and NewFromTopic (SpecCalls).                          *)
(***************************************************************************)
Returned == call.state \in {"returned", "topic"}

\* C1: whenever building the schema loader fails (unknown chain, or a custom schema
\* that cannot be registered), New returns an error and no Filter, does not crash,
\* and runs no later composition step on the failed loader.
C1_LoaderFailureReturnsError ==
    (call.op = "New" /\ Returned /\ newLoader(call.chainID, call.schema).err # "")
        => /\ call.res.kind = "err"
           /\ call.res.filter = Nil
           /\ call.res.steps = <<"newLoader">>

\* the number that stands where the topic's version is expected
VersionScan(topic) == ScanInt(topic, Len(topicVersionPrefix) + 1)

HasVersionNumber(topic) ==
    HasPrefixAt(topic, 1, topicVersionPrefix) /\ VersionScan(topic).ok

WrongVersionCall ==
    /\ call.op = "NewFromTopic" /\ Returned
    /\ HasVersionNumber(call.topic)
    /\ VersionScan(call.topic).val # 3

FailsWithWrongVersion ==
    /\ call.res.err = "WrongTopicVersionError"
    /\ call.res.expectedVersion = 3
    /\ call.res.actualVersion = VersionScan(call.topic).val

StopsAtVersion ==
    /\ call.res.kind = "err"
    /\ call.res.filter = Nil
    /\ call.res.steps = <<"Sscanf(topicVersionFormat)">>

\* C2: every topic whose version is a number other than 3 fails with
\* WrongTopicVersionError{3, parsed}, whatever follows the version (even nothing),
\* returns no Filter and parses nothing further.
C2_WrongVersionAlways == WrongVersionCall => (FailsWithWrongVersion /\ StopsAtVersion)

CanonicalTopics ==
    {topicVersionPrefix \o <<"3">> \o ChainAndSchema(c, Marshal(Unmarshal(s).val)) :
        c \in ChainIDs, s \in {x \in SchemaTexts : ~Unmarshal(x).err}}

BothNewWithTopics ==
    /\ f # Nil /\ f.topic # <<>>
    /\ g.src = "New" /\ g.filter # Nil /\ g.filter.topic # <<>>

\* the canonical text of the custom schema document that New loaded from a text
CanonicalSchemaText(customOrderSchema) == Marshal(LoadJSON(customOrderSchema).doc)

\* C3: for every (chainID, schemaText) on which New succeeds with Filter f,
\* NewFromTopic(f.Topic()) succeeds with a Filter of the same chainID whose
\* rawCustomOrderSchema is the canonical form of schemaText.
C3_RoundTrip ==
    (f # Nil /\ g.src = "NewFromTopic(f.Topic())")
        => /\ g.kind = "ok"
           /\ g.filter.chainID = f.chainID
           /\ g.filter.rawCustomOrderSchema = CanonicalSchemaText(f.rawCustomOrderSchema)

\* two texts that are JSON and denote the same value
SemanticallyEqual(a, b) ==
    /\ ~Unmarshal(a).err /\ ~Unmarshal(b).err
    /\ Unmarshal(a).val = Unmarshal(b).val

\* the topic that carries the canonical form of a JSON text
CanonicalTopicOf(chainID, customOrderSchema) ==
    topicVersionPrefix \o <<"3">>
        \o ChainAndSchema(chainID, Marshal(Unmarshal(customOrderSchema).val))

\* C4: Filters built by New for the same chain from two schema texts that are
\* semantically equal JSON return the same Topic(), and the schema segment of a
\* topic is the base64url text of the canonical form of the schema, not of the raw
\* text.
C4_CanonicalizationInvariance ==
    /\ (BothNewWithTopics /\ f.chainID = g.filter.chainID
            /\ SemanticallyEqual(f.rawCustomOrderSchema, g.filter.rawCustomOrderSchema))
         => f.topic = g.filter.topic
    /\ (f # Nil /\ f.topic # <<>> /\ ~Unmarshal(f.rawCustomOrderSchema).err)
         => f.topic = CanonicalTopicOf(f.chainID, f.rawCustomOrderSchema)

\* the same schema written with its keys in two orders, one text padded with spaces
C4_Witness ==
    /\ BothNewWithTopics
    /\ f.chainID = g.filter.chainID
    /\ f.rawCustomOrderSchema = SchemaRT
    /\ g.filter.rawCustomOrderSchema = Decorate(SchemaTR, 1, <<>>)
    /\ f.topic = g.filter.topic

\* C5: two Filters built by New that have the same Topic() have the same chainID
\* and semantically equal custom order schemas, hence the same validators.
C5_TopicSeparation ==
    (BothNewWithTopics /\ f.topic = g.filter.topic)
        => /\ f.chainID = g.filter.chainID
           /\ f.orderSchema.customOrder = g.filter.orderSchema.customOrder
           /\ f.orderSchema = g.filter.orderSchema


(***************************************************************************)
(* SpecTopic: goroutines calling Topic() on one shared Filter f.  The      *)
(* field f.topic is a string header of two words, the data pointer and the *)
(* length, that Topic() reads and writes without synchronisation: each     *)
(* word is loaded and stored on its own, in either order.  Every buffer    *)
(* that generateTopic returns holds the same text, so the data pointer is  *)
(* "nil" or "buf".                                                         *)
(***************************************************************************)
MaxThreads == 2

\* calls of Topic() by each goroutine
MaxCalls == 2

Threads == 1..MaxThreads

SharedFilters == {New(1, SchemaE).filter, New(1, SchemaTR).filter}

NoHeader == [ptr |-> "nil", len |-> 0]

IdleThread == [pc |-> "idle", calls |-> 0, local |-> NoHeader, ret |-> NoHeader, first |-> ""]

InitTopic ==
    /\ f \in SharedFilters
    /\ topicPtr = "nil" /\ topicLen = 0
    /\ thr = [t \in Threads |-> IdleThread]
    /\ g = NoG /\ IdleCalls /\ IdleValidate

\* the string that a header denotes; a length without data is no string of the program
StringOf(h) ==
    IF h.len = 0 THEN <<>>
    ELSE IF h.ptr = "nil" THEN <<"<invalid>">>
    ELSE SubSeq(generateTopic(f), 1, h.len)

\* a goroutine enters Topic()
TopicCall(t) ==
    /\ thr[t].pc = "idle" /\ thr[t].calls < MaxCalls
    /\ thr' = [thr EXCEPT ![t].pc = "check"]
    /\ UNCHANGED <<f, g, call, topicPtr, topicLen, vf, vcall>>

\* if f.topic == "": the comparison reads the length; when it is 0 the goroutine
\* calls generateTopic, which returns a fresh string
TopicCheck(t) ==
    /\ thr[t].pc = "check"
    /\ thr' = IF topicLen = 0
              THEN [thr EXCEPT ![t].pc = "store",
                               ![t].local = [ptr |-> "buf", len |-> Len(generateTopic(f))]]
              ELSE [thr EXCEPT ![t].pc = "load"]
    /\ UNCHANGED <<f, g, call, topicPtr, topicLen, vf, vcall>>

\* f.topic = ...: the first word stored
TopicStoreFirst(t, w) ==
    /\ thr[t].pc = "store"
    /\ topicPtr' = IF w = "ptr" THEN thr[t].local.ptr ELSE topicPtr
    /\ topicLen' = IF w = "len" THEN thr[t].local.len ELSE topicLen
    /\ thr' = [thr EXCEPT ![t].pc = "store2", ![t].first = w]
    /\ UNCHANGED <<f, g, call, vf, vcall>>

\* f.topic = ...: the other word stored
TopicStoreSecond(t) ==
    /\ thr[t].pc = "store2"
    /\ topicPtr' = IF thr[t].first = "len" THEN thr[t].local.ptr ELSE topicPtr
    /\ topicLen' = IF thr[t].first = "ptr" THEN thr[t].local.len ELSE topicLen
    /\ thr' = [thr EXCEPT ![t].pc = "load", ![t].first = ""]
    /\ UNCHANGED <<f, g, call, vf, vcall>>

\* return f.topic: the first word loaded
TopicLoadFirst(t, w) ==
    /\ thr[t].pc = "load"
    /\ thr' = [thr EXCEPT ![t].pc = "load2", ![t].first = w,
                          ![t].ret = IF w = "ptr" THEN [ptr |-> topicPtr, len |-> 0]
                                     ELSE [ptr |-> "nil", len |-> topicLen]]
    /\ UNCHANGED <<f, g, call, topicPtr, topicLen, vf, vcall>>

\* return f.topic: the other word loaded, and the call returns
TopicLoadSecond(t) ==
    /\ thr[t].pc = "load2"
    /\ thr' = [thr EXCEPT ![t].pc = "idle", ![t].first = "", ![t].calls = @ + 1,
                          ![t].local = NoHeader,
                          ![t].ret = IF thr[t].first = "ptr" THEN [@ EXCEPT !.len = topicLen]
                                     ELSE [@ EXCEPT !.ptr = topicPtr]]
    /\ UNCHANGED <<f, g, call, topicPtr, topicLen, vf, vcall>>

NextTopic ==
    \E t \in Threads :
        \/ TopicCall(t)
        \/ TopicCheck(t)
        \/ \E w \in {"ptr", "len"} : TopicStoreFirst(t, w)
        \/ TopicStoreSecond(t)
        \/ \E w \in {"ptr", "len"} : TopicLoadFirst(t, w)
        \/ TopicLoadSecond(t)

SpecTopic == InitTopic /\ [][NextTopic]_vars

\* C6: when goroutines call Topic() on one Filter concurrently and repeatedly, every
\* call returns the same string, generateTopic's result for the Filter.
C6_EveryCallReturnsTheTopic ==
    \A t \in Threads :
        (thr[t].calls > 0 /\ thr[t].pc \in {"idle", "check"})
            => StringOf(thr[t].ret) = generateTopic(f)


(***************************************************************************)
(* The built-in schemas, as the predicate each one is on a JSON value.  A  *)
(* document is a JSON value as above, an integer [t |-> "int", n |-> ..],  *)
(* or [t |-> "malformed"] for bytes that are no JSON.  A pattern without   *)
(* anchors matches anywhere in the string.                                 *)
(***************************************************************************)
JInt(n) == [t |-> "int", n |-> n]

Malformed == [t |-> "malformed"]

IsHexDigit(c) ==
    \/ IsDigit(c)
    \/ c \in {"a", "b", "c", "d", "e", "f", "A", "B", "C", "D", "E", "F"}

AllHex(s, from) == \A i \in from..Len(s) : IsHexDigit(s[i])

\* addressSchemaLoader: {"type":"string","pattern":"^0x[0-9a-fA-F]{40}$"}
addressSchema(v) ==
    /\ v.t = "str"
    /\ Len(v.s) = 42 /\ HasPrefixAt(v.s, 1, <<"0", "x">>) /\ AllHex(v.s, 3)

\* wholeNumberSchemaLoader: {"anyOf":[{"type":"string","pattern":"^\\d+$"},{"type":"integer"}]}
wholeNumberSchema(v) ==
    \/ v.t = "str" /\ Len(v.s) >= 1 /\ \A i \in 1..Len(v.s) : IsDigit(v.s[i])
    \/ v.t = "int"

\* hexSchemaLoader: {"type":"string","pattern":"^0x(([0-9a-fA-F][0-9a-fA-F])+)?$"}
hexSchema(v) ==
    /\ v.t = "str"
    /\ HasPrefixAt(v.s, 1, <<"0", "x">>) /\ AllHex(v.s, 3) /\ Len(v.s) % 2 = 0

\* {"type":"string","pattern":p}
stringPatternSchema(p, v) == v.t = "str" /\ Contains(v.s, p)

\* the /exchangeAddress fragment of loadExchangeAddress:
\* {"oneOf":[{"type":"string","pattern":Hex},{"type":"string","pattern":lower(Hex)}]}
exchangeAddressSchema(oneOf, v) ==
    Cardinality({i \in 1..Len(oneOf) : stringPatternSchema(oneOf[i], v)}) = 1

\* "properties" of orderSchemaLoader: the fragment each field refers to
orderProperties ==
    (<<"m", "a", "k", "e", "r", "A", "d", "d", "r", "e", "s", "s">> :> "/address")
    @@ (<<"t", "a", "k", "e", "r", "A", "d", "d", "r", "e", "s", "s">> :> "/address")
    @@ (<<"m", "a", "k", "e", "r", "F", "e", "e">> :> "/wholeNumber")
    @@ (<<"t", "a", "k", "e", "r", "F", "e", "e">> :> "/wholeNumber")
    @@ (<<"s", "e", "n", "d", "e", "r", "A", "d", "d", "r", "e", "s", "s">> :> "/address")
    @@ (<<"m", "a", "k", "e", "r", "A", "s", "s", "e", "t", "A", "m", "o", "u", "n", "t">> :> "/wholeNumber")
    @@ (<<"t", "a", "k", "e", "r", "A", "s", "s", "e", "t", "A", "m", "o", "u", "n", "t">> :> "/wholeNumber")
    @@ (<<"m", "a", "k", "e", "r", "A", "s", "s", "e", "t", "D", "a", "t", "a">> :> "/hex")
    @@ (<<"t", "a", "k", "e", "r", "A", "s", "s", "e", "t", "D", "a", "t", "a">> :> "/hex")
    @@ (<<"s", "a", "l", "t">> :> "/wholeNumber")
    @@ (<<"e", "x", "c", "h", "a", "n", "g", "e", "A", "d", "d", "r", "e", "s", "s">> :> "/exchangeAddress")
    @@ (<<"f", "e", "e", "R", "e", "c", "i", "p", "i", "e", "n", "t", "A", "d", "d", "r", "e", "s", "s">> :> "/address")
    @@ (<<"e", "x", "p", "i", "r", "a", "t", "i", "o", "n", "T", "i", "m", "e", "S", "e", "c", "o", "n", "d", "s">> :> "/wholeNumber")

\* "required" of orderSchemaLoader
orderRequired ==
    { <<"m", "a", "k", "e", "r", "A", "d", "d", "r", "e", "s", "s">>,
      <<"t", "a", "k", "e", "r", "A", "d", "d", "r", "e", "s", "s">>,
      <<"m", "a", "k", "e", "r", "F", "e", "e">>,
      <<"t", "a", "k", "e", "r", "F", "e", "e">>,
      <<"s", "e", "n", "d", "e", "r", "A", "d", "d", "r", "e", "s", "s">>,
      <<"m", "a", "k", "e", "r", "A", "s", "s", "e", "t", "A", "m", "o", "u", "n", "t">>,
      <<"t", "a", "k", "e", "r", "A", "s", "s", "e", "t", "A", "m", "o", "u", "n", "t">>,
      <<"m", "a", "k", "e", "r", "A", "s", "s", "e", "t", "D", "a", "t", "a">>,
      <<"t", "a", "k", "e", "r", "A", "s", "s", "e", "t", "D", "a", "t", "a">>,
      <<"s", "a", "l", "t">>,
      <<"e", "x", "c", "h", "a", "n", "g", "e", "A", "d", "d", "r", "e", "s", "s">>,
      <<"f", "e", "e", "R", "e", "c", "i", "p", "i", "e", "n", "t", "A", "d", "d", "r", "e", "s", "s">>,
      <<"e", "x", "p", "i", "r", "a", "t", "i", "o", "n", "T", "i", "m", "e", "S", "e", "c", "o", "n", "d", "s">> }

KeySignature == <<"s", "i", "g", "n", "a", "t", "u", "r", "e">>

KeyMessageType == <<"M", "e", "s", "s", "a", "g", "e", "T", "y", "p", "e">>

KeyOrder == <<"O", "r", "d", "e", "r">>

KeyExchangeAddress == <<"e", "x", "c", "h", "a", "n", "g", "e", "A", "d", "d", "r", "e", "s", "s">>

\* {"$ref": ref}
refSchema(schema, ref, v) ==
    IF ref = "/address" THEN addressSchema(v)
    ELSE IF ref = "/wholeNumber" THEN wholeNumberSchema(v)
    ELSE IF ref = "/hex" THEN hexSchema(v)
    ELSE exchangeAddressSchema(schema.exchangeAddress, v)

\* orderSchemaLoader: {"properties":{...},"required":[...],"type":"object"}
orderSchema(schema, v) ==
    /\ v.t = "obj"
    /\ orderRequired \subseteq DOMAIN v.m
    /\ \A k \in (DOMAIN v.m) \cap (DOMAIN orderProperties) :
           refSchema(schema, orderProperties[k], v.m[k])

\* signedOrderSchemaLoader:
\* {"allOf":[{"$ref":"/order"},{"properties":{"signature":{"$ref":"/hex"}},"required":["signature"]}]}
signedOrderSchema(schema, v) ==
    /\ orderSchema(schema, v)
    /\ v.t = "obj" => (KeySignature \in DOMAIN v.m /\ hexSchema(v.m[KeySignature]))

\* the /customOrder fragment: the keywords "type" and "required" of the custom schema
customOrderSchema(custom, v) ==
    /\ KeyType \in DOMAIN custom.m =>
           v.t = (IF custom.m[KeyType].s = <<"o", "b", "j", "e", "c", "t">> THEN "obj"
                  ELSE IF custom.m[KeyType].s = <<"s", "t", "r", "i", "n", "g">> THEN "str"
                  ELSE IF custom.m[KeyType].s = <<"i", "n", "t", "e", "g", "e", "r">> THEN "int"
                  ELSE IF custom.m[KeyType].s = <<"a", "r", "r", "a", "y">> THEN "arr"
                  ELSE "other")
    /\ (KeyRequired \in DOMAIN custom.m /\ v.t = "obj") =>
           \A i \in 1..Len(custom.m[KeyRequired].a) : custom.m[KeyRequired].a[i].s \in DOMAIN v.m

\* a root order schema that leaves the custom order schema out
rootOrderSchema_SignedOnly(schema, v) == signedOrderSchema(schema, v)

\* rootOrderSchemaLoader: {"allOf":[{"$ref":"/customOrder"},{"$ref":"/signedOrder"}]}
rootOrderSchema(schema, v) ==
    /\ customOrderSchema(schema.customOrder, v)
    /\ signedOrderSchema(schema, v)

\* rootMessageSchemaLoader:
\* {"properties":{"MessageType":{"type":"string"},"Order":{"$ref":"/rootOrder"}},
\*  "required":["MessageType","Order"]}
rootMessageSchema(schema, v) ==
    v.t = "obj" =>
        /\ {KeyMessageType, KeyOrder} \subseteq DOMAIN v.m
        /\ v.m[KeyMessageType].t = "str"
        /\ rootOrderSchema(schema, v.m[KeyOrder])

\* Schema.Validate: err when the document's bytes are no JSON
Validate(schema, document) ==
    IF document = Malformed THEN [err |-> TRUE, valid |-> FALSE]
    ELSE [err |-> FALSE,
          valid |-> IF schema.root = "/rootOrder" THEN rootOrderSchema(schema, document)
                    ELSE rootMessageSchema(schema, document)]

\* Filter.MatchMessageJSON: (false, err) or (result.Valid(), nil)
MatchMessageJSON(fl, messageJSON) ==
    [ok  |-> Validate(fl.messageSchema, messageJSON).valid,
     err |-> Validate(fl.messageSchema, messageJSON).err]

\* Filter.ValidateOrderJSON
ValidateOrderJSON(fl, orderJSON) == Validate(fl.orderSchema, orderJSON)


(***************************************************************************)
(* Documents.  An order document is the well-shaped signed order of a      *)
(* chain with up to MaxDeviations of its fields removed or replaced; a     *)
(* message document wraps one.                                             *)
(***************************************************************************)
MaxDeviations == 1

AddressFields ==
    { <<"m", "a", "k", "e", "r", "A", "d", "d", "r", "e", "s", "s">>,
      <<"t", "a", "k", "e", "r", "A", "d", "d", "r", "e", "s", "s">>,
      <<"s", "e", "n", "d", "e", "r", "A", "d", "d", "r", "e", "s", "s">>,
      <<"f", "e", "e", "R", "e", "c", "i", "p", "i", "e", "n", "t", "A", "d", "d", "r", "e", "s", "s">> }

WholeNumberFields ==
    { <<"m", "a", "k", "e", "r", "F", "e", "e">>,
      <<"t", "a", "k", "e", "r", "F", "e", "e">>,
      <<"m", "a", "k", "e", "r", "A", "s", "s", "e", "t", "A", "m", "o", "u", "n", "t">>,
      <<"t", "a", "k", "e", "r", "A", "s", "s", "e", "t", "A", "m", "o", "u", "n", "t">>,
      <<"s", "a", "l", "t">>,
      <<"e", "x", "p", "i", "r", "a", "t", "i", "o", "n", "T", "i", "m", "e", "S", "e", "c", "o", "n", "d", "s">> }

HexFields ==
    { <<"m", "a", "k", "e", "r", "A", "s", "s", "e", "t", "D", "a", "t", "a">>,
      <<"t", "a", "k", "e", "r", "A", "s", "s", "e", "t", "D", "a", "t", "a">>,
      <<"s", "i", "g", "n", "a", "t", "u", "r", "e">> }

KeyX == <<"x">>

GoodAddress == JStr(<<"0", "x", "a", "1", "B", "2", "a", "1", "B", "2", "a", "1", "B", "2", "a", "1", "B", "2", "a", "1", "B", "2", "a", "1", "B", "2", "a", "1", "B", "2", "a", "1", "B", "2", "a", "1", "B", "2", "a", "1", "B", "2">>)

ZeroAddress == JStr(<<"0", "x", "0", "0", "0", "0", "0", "0", "0", "0", "0", "0", "0", "0", "0", "0", "0", "0", "0", "0", "0", "0", "0", "0", "0", "0", "0", "0", "0", "0", "0", "0", "0", "0", "0", "0", "0", "0", "0", "0", "0", "0">>)

LongAddress == JStr(<<"0", "x", "a", "1", "B", "2", "a", "1", "B", "2", "a", "1", "B", "2", "a", "1", "B", "2", "a", "1", "B", "2", "a", "1", "B", "2", "a", "1", "B", "2", "a", "1", "B", "2", "a", "1", "B", "2", "a", "1", "B", "2", "0">>)

Remove(m, k) == [x \in (DOMAIN m) \ {k} |-> m[x]]

\* a signed order with every field in the first form its fragment describes
BaseOrder(chainID) ==
    JObj([k \in AddressFields \cup WholeNumberFields \cup HexFields \cup {KeyExchangeAddress} |->
            IF k \in AddressFields THEN GoodAddress
            ELSE IF k \in WholeNumberFields THEN JStr(<<"1", "0", "0", "0">>)
            ELSE IF k \in HexFields THEN JStr(<<"0", "x", "a", "b", "c", "d">>)
            ELSE JStr(ExchangeHex[chainID])])

\* the other values a field takes; JNone is the field left out
Alternatives(chainID, k) ==
    IF k \in AddressFields THEN {JNone, ZeroAddress, LongAddress}
    ELSE IF k \in WholeNumberFields THEN {JNone, JInt(7), JStr(<<"1", "0", "x">>)}
    ELSE IF k \in HexFields THEN {JNone, JStr(<<"0", "x">>), JStr(<<"0", "x", "a", "b", "c">>)}
    ELSE IF k = KeyExchangeAddress
    THEN {JNone, JInt(1), GoodAddress,
          JStr(ToLower(ExchangeHex[chainID])),
          JStr(<<"x">> \o ExchangeHex[chainID]),
          JStr(ExchangeHex[chainID] \o ToLower(ExchangeHex[chainID]))}
    ELSE {JInt(1)}

SetField(doc, k, v) == IF v = JNone THEN JObj(Remove(doc.m, k)) ELSE JObj(Put(doc.m, k, v))

DeviatingFields ==
    AddressFields \cup WholeNumberFields \cup HexFields \cup {KeyExchangeAddress, KeyX}

\* the documents that differ from d in at most one field
DeviateOne(chainID, d) ==
    {d} \cup UNION { { SetField(d, k, v) : v \in Alternatives(chainID, k) } :
                       k \in DeviatingFields }

RECURSIVE Deviate(_, _, _)
Deviate(chainID, docs, n) ==
    IF n = 0 THEN docs
    ELSE UNION { DeviateOne(chainID, d) : d \in Deviate(chainID, docs, n - 1) }

OrderObjects(chainID) == Deviate(chainID, {BaseOrder(chainID)}, MaxDeviations)

OrderDocs(chainID) == OrderObjects(chainID) \cup {JInt(5), JStr(<<"z">>), Malformed}

MessageDocs(chainID) ==
    {JInt(5), JStr(<<"z">>), JArr(<<>>), Malformed}
    \cup
    { SetField(SetField(JObj(EmptyMap), KeyMessageType, mt), KeyOrder, o) :
        mt \in {JNone, JStr(<<"o", "r", "d", "e", "r">>), JInt(1)},
        o \in OrderObjects(chainID) \cup {JNone, JInt(5)} }

(***************************************************************************)
(* SpecValidate: a Filter is made with New and then validates one          *)
(* document, as an order or as a message.                                  *)
(***************************************************************************)
CustomSchemas == {SchemaE, SchemaR, SchemaRT}

InitValidate == f = Nil /\ g = NoG /\ IdleCalls /\ IdleTopic /\ IdleValidate

ValidateNew(chainID, customSchema) ==
    /\ vf = Nil
    /\ NewMemo[chainID][customSchema].kind = "ok"
    /\ vf' = NewMemo[chainID][customSchema].filter
    /\ UNCHANGED <<f, g, call, topicPtr, topicLen, thr, vcall>>

\* the documents offered to the Filter of each chain
OrderDocsOf == [c \in DOMAIN ExchangeHex |-> OrderDocs(c)]

MessageDocsOf == [c \in DOMAIN ExchangeHex |-> MessageDocs(c)]

CallValidateOrderJSON(orderJSON) ==
    /\ vf # Nil /\ vcall = Nil
    /\ orderJSON \in OrderDocsOf[vf.chainID]
    /\ vcall' = [op |-> "ValidateOrderJSON", doc |-> orderJSON,
                 res |-> ValidateOrderJSON(vf, orderJSON)]
    /\ UNCHANGED <<f, g, call, topicPtr, topicLen, thr, vf>>

CallMatchMessageJSON(messageJSON) ==
    /\ vf # Nil /\ vcall = Nil
    /\ messageJSON \in MessageDocsOf[vf.chainID]
    /\ vcall' = [op |-> "MatchMessageJSON", doc |-> messageJSON,
                 res |-> MatchMessageJSON(vf, messageJSON)]
    /\ UNCHANGED <<f, g, call, topicPtr, topicLen, thr, vf>>

NextValidate ==
    \/ \E c \in ChainIDs, s \in CustomSchemas : ValidateNew(c, s)
    \/ \E d \in UNION {OrderDocsOf[c] : c \in DOMAIN OrderDocsOf} : CallValidateOrderJSON(d)
    \/ \E m \in UNION {MessageDocsOf[c] : c \in DOMAIN MessageDocsOf} : CallMatchMessageJSON(m)

SpecValidate == InitValidate /\ [][NextValidate]_vars


(***************************************************************************)
(* Claims about validation, checked in SpecValidate.                       *)
(***************************************************************************)
OrderCall == vcall # Nil /\ vcall.op = "ValidateOrderJSON"

MessageCall == vcall # Nil /\ vcall.op = "MatchMessageJSON"

\* an order document of the chain that is well shaped but for its exchangeAddress
OnlyExchangeAddressVaries ==
    /\ OrderCall /\ vcall.doc.t = "obj"
    /\ KeyExchangeAddress \in DOMAIN vcall.doc.m
    /\ vcall.doc.m[KeyExchangeAddress].t = "str"
    /\ Remove(vcall.doc.m, KeyExchangeAddress)
         = Remove(BaseOrder(vf.chainID).m, KeyExchangeAddress)
    /\ vf.rawCustomOrderSchema = SchemaE

\* C7: the /exchangeAddress fragment accepts a string exactly when it is the
\* checksummed text of the chain's exchange address or its lower-case text: an
\* order that is otherwise well shaped is valid exactly when its exchangeAddress
\* is one of the two.
C7_ExactlyTheTwoForms ==
    OnlyExchangeAddressVaries =>
        (vcall.res.valid <=>
            vcall.doc.m[KeyExchangeAddress].s
                \in {ExchangeHex[vf.chainID], ToLower(ExchangeHex[vf.chainID])})

\* C8: MatchMessageJSON returns true exactly when the message is an object with
\* a MessageType that is a string and an Order that ValidateOrderJSON of the same
\* Filter reports valid.
C8_MatchIffObjectWithTypeAndOrder ==
    MessageCall =>
        (vcall.res.ok <=>
            /\ vcall.doc.t = "obj"
            /\ KeyMessageType \in DOMAIN vcall.doc.m
            /\ vcall.doc.m[KeyMessageType].t = "str"
            /\ KeyOrder \in DOMAIN vcall.doc.m
            /\ ValidateOrderJSON(vf, vcall.doc.m[KeyOrder]).valid)

\* the signed-order shape: an object that holds the thirteen order fields and
\* signature, each matching the fragment it refers to
SignedOrderShape(fl, doc) ==
    /\ doc.t = "obj"
    /\ \A k \in AddressFields :
           k \in DOMAIN doc.m /\ addressSchema(doc.m[k])
    /\ \A k \in WholeNumberFields :
           k \in DOMAIN doc.m /\ wholeNumberSchema(doc.m[k])
    /\ \A k \in HexFields :
           k \in DOMAIN doc.m /\ hexSchema(doc.m[k])
    /\ KeyExchangeAddress \in DOMAIN doc.m
    /\ exchangeAddressSchema(fl.orderSchema.exchangeAddress, doc.m[KeyExchangeAddress])

\* what each custom order schema of CustomSchemas asks of a document
SatisfiesCustom(fl, doc) ==
    IF fl.rawCustomOrderSchema = SchemaE THEN TRUE
    ELSE IF fl.rawCustomOrderSchema = SchemaR THEN doc.t = "obj" => KeyX \in DOMAIN doc.m
    ELSE doc.t = "obj" /\ KeyX \in DOMAIN doc.m

\* C9: ValidateOrderJSON reports a document valid exactly when it has the
\* signed-order shape and satisfies the Filter's custom order schema; a document
\* that lacks a required field is invalid, and with the custom schema {} every
\* well-shaped signed order is valid.
C9_ValidIffShapeAndCustom ==
    (OrderCall /\ vcall.doc # Malformed) =>
        /\ vcall.res.valid <=>
               (SignedOrderShape(vf, vcall.doc) /\ SatisfiesCustom(vf, vcall.doc))
        /\ (vcall.doc.t = "obj" /\
            \E k \in orderRequired \cup {KeySignature} : k \notin DOMAIN vcall.doc.m)
               => ~vcall.res.valid
        /\ (vf.rawCustomOrderSchema = SchemaE /\ SignedOrderShape(vf, vcall.doc))
               => vcall.res.valid

\* a well-shaped order that also has the key the custom schema requires is valid
C9_Witness ==
    /\ OrderCall /\ vf.rawCustomOrderSchema = SchemaR
    /\ vcall.doc.t = "obj" /\ KeyX \in DOMAIN vcall.doc.m
    /\ SignedOrderShape(vf, vcall.doc)
    /\ vcall.res.valid

=============================================================================
